---------------------------- MODULE Spec2Model ----------------------------
(***************************************************************************)
(* A model of the e-commerce admin feature: the product router (the store  *)
(* operations of src/unnamed/part_000) and the product creation form       *)
(* (src/src/components/admin/AddProduct.tsx).                              *)
(*                                                                         *)
(* Strings the code inspects (price, weight, urls, validated form fields)  *)
(* are sequences of characters or of url segments; ids are naturals drawn  *)
(* from per-table counters (the store hands out fresh ids), 0 is "no id".  *)
(*                                                                         *)
(* Specifications:                                                         *)
(*   Spec          status and categories, one request at a time            *)
(*   CatalogSpec   addProduct and removeVariant, one request at a time     *)
(*   SettingsSpec  setBannerText and getBannerText                         *)
(*   ConcSpec      the router with overlapping requests: a handler is      *)
(*                 split at each await, one action per store call          *)
(*   BatchSpec     addVariant and the store calls of its entries           *)
(*   FormSpec      the form component with the addProduct mutation, one    *)
(*                 upload at a time                                        *)
(*   UploadSpec    the pickers and variant rows, uploads overlapping       *)
(***************************************************************************)
EXTENDS Integers, Sequences, FiniteSets

\* ------------------------------------------------------------------ bounds
MaxProducts == 2
MaxCategories == 2
MaxVariants == 3
MaxCalls == 2
MaxTasks == 2
MaxFiles == 2
MaxImages == 3
MaxRows == 2
MaxHandlers == 2

\* ------------------------------------------------------------------ state
VARIABLES
  product,        \* Product table: id -> [name, price, weight, description, isActive, createdAt]
  category,       \* Category table: set of category ids
  membership,     \* Product <-> Category relation: set of <<productId, categoryId>>
  image,          \* Image table: set of [id, src, alt, productId]
  variant,        \* Variant table: set of [id, name, imageSrc, type, productId]
  seq,            \* ids handed out so far, per table: [product, category, image, variant]
  settings,       \* Settings table: set of [name, value]
  resp,           \* the response of the latest request to complete
  prev,           \* the response of the request that completed before it
  calls,          \* requests in flight between two store calls: slot -> [op, id, cat, pc, read]
  tasks,          \* addVariant's per-entry callbacks: sequence of [entry, response, state, made]
  form,           \* the form's values: [name, price, weight, description, image, variant]
  imagePreviews,  \* the preview state: [defined, list of files]
  handlers,       \* picker handlers awaiting an upload: [kind, files, at, images, urls,
                  \*   index, field]; field is where the field-array item of a
                  \*   variant picker is now (0: removed), index what the handler holds
  mutation,       \* the addProduct mutation of the form: [state, payload]
  open,           \* whether the dialog is shown
  effects,        \* what onSubmit's then chain has done, in the order it did it
  lastUpload      \* how the latest picker handler to end ended: [outcome, uploaded],
                  \*   with the number of its files it had uploaded

storeVars == <<product, category, membership, image, variant, seq, settings>>
vars == <<product, category, membership, image, variant, seq, settings, resp, prev, calls,
          tasks, form, imagePreviews, handlers, mutation, open, effects, lastUpload>>
formVars == <<form, imagePreviews, handlers, mutation, open, effects, lastUpload>>
serviceVars == <<product, category, membership, image, variant, seq, settings, resp, prev,
                 calls, tasks>>

\* ------------------------------------------------------------- strings
Digits == {"1", "5"}

RECURSIVE DigitRun(_)
\* the longest prefix of s made of digits
DigitRun(s) ==
  IF s = <<>> \/ Head(s) \notin Digits THEN <<>>
  ELSE <<Head(s)>> \o DigitRun(Tail(s))

Drop(s, n) == SubSeq(s, n + 1, Len(s))

DigitValue(d) == IF d = "1" THEN 1 ELSE 5

RECURSIVE Decimal(_)
Decimal(ds) ==
  IF ds = <<>> THEN 0
  ELSE 10 * Decimal(SubSeq(ds, 1, Len(ds) - 1)) + DigitValue(ds[Len(ds)])

NaN == [nan |-> TRUE, num |-> 0, scale |-> 0]

\* parseFloat: the number written by the longest numeric prefix of s
\* (digits, then optionally a point and digits), NaN when there is none.
\* A number is num / 10^scale.
parseFloat(s) ==
  LET int  == DigitRun(s)
      rest == Drop(s, Len(int))
      frac == IF rest # <<>> /\ Head(rest) = "." THEN DigitRun(Tail(rest)) ELSE <<>>
  IN IF int = <<>> /\ frac = <<>> THEN NaN
     ELSE [nan |-> FALSE, num |-> Decimal(int \o frac), scale |-> Len(frac)]

\* ------------------------------------------------------------- the store
ProductIds == 1..MaxProducts
CategoryIds == 1..MaxCategories
VariantIds == 1..MaxVariants

Products == DOMAIN product

\* the store hands out ids in creation order and never reuses one
NextProductId == seq.product + 1
NextCategoryId == seq.category + 1
NextImageId == seq.image + 1
NextVariantId == seq.variant + 1

variantIds == {v.id : v \in variant}

categoriesOf(p) == {m[2] : m \in {x \in membership : x[1] = p}}
imagesOf(p) == {i \in image : i.productId = p}
variantsOf(p) == {v \in variant : v.productId = p}

\* categories: { set: [] }
SetNone(rel, p) == {m \in rel : m[1] # p}
\* categories: { connect: { id } }
Connect(rel, p, c) == rel \cup {<<p, c>>}

\* ------------------------------------------------------------- responses
NoInput == [name |-> <<>>, price |-> <<>>, weight |-> <<>>, description |-> <<>>,
            image |-> <<>>, variant |-> <<>>]

Response(op, id, cat, input, status, ret) ==
  [op |-> op, id |-> id, cat |-> cat, input |-> input, status |-> status, ret |-> ret]

NoResponse == Response("none", 0, 0, NoInput, "ok", FALSE)

\* the response r of a request that completes becomes the latest
Logs(r) == resp' = r /\ prev' = resp

\* a request of the router's own clients completes with response r
Completes(r) == Logs(r) /\ UNCHANGED formVars

\* a handler that runs from request to response in one step
Reply(r) == Completes(r) /\ UNCHANGED <<calls, tasks>>

\* ------------------------------------------------------------- inputs
ProductInputs ==
  { [name |-> <<"a">>, price |-> <<"1", "5">>, weight |-> <<"1", ".", "5">>,
     description |-> <<"d">>, image |-> <<[src |-> <<"C", "k">>]>>, variant |-> <<>>],
    [name |-> <<"b">>, price |-> <<"x">>, weight |-> <<"5", "x">>,
     description |-> <<"e">>,
     image |-> <<[src |-> <<"C", "k">>], [src |-> <<"C", "m">>]>>,
     variant |-> <<[name |-> <<"r">>, imageSrc |-> <<"C", "k">>],
                   [name |-> <<"g">>, imageSrc |-> <<"C", "m">>]>>],
    [name |-> <<"a">>, price |-> <<".", "5">>, weight |-> <<"1", ".">>,
     description |-> <<"d">>, image |-> <<>>,
     variant |-> <<[name |-> <<"r">>, imageSrc |-> <<"C", "k">>]>>] }

\* the payload the status and category runs create their products with
SeedInputs ==
  { [name |-> <<"a">>, price |-> <<"1", "5">>, weight |-> <<"1", ".", "5">>,
     description |-> <<"d">>, image |-> <<[src |-> <<"C", "k">>]>>, variant |-> <<>>] }

\* ------------------------------------------------------------- handlers
\* addProduct: one nested create (product, its images, its variants)
NewProduct(input, active, at) ==
  [name |-> input.name, price |-> parseFloat(input.price),
   weight |-> parseFloat(input.weight), description |-> input.description,
   isActive |-> active, createdAt |-> at]

\* mutant: the image records take their alt from the description
NewImagesAltDescription(input, p, base) ==
  {[id |-> base + k, src |-> input.image[k].src, alt |-> input.description,
    productId |-> p] : k \in 1..Len(input.image)}

NewImages(input, p, base) ==
  {[id |-> base + k, src |-> input.image[k].src, alt |-> input.name, productId |-> p]
     : k \in 1..Len(input.image)}

NewVariants(input, p, base) ==
  {[id |-> base + k, name |-> input.variant[k].name,
    imageSrc |-> input.variant[k].imageSrc, type |-> "color", productId |-> p]
     : k \in 1..Len(input.variant)}

\* prisma.product.create with the nested createMany of images and variants
CreateProduct(input, active) ==
  /\ product' = [p \in Products \cup {NextProductId} |->
                   IF p \in Products THEN product[p]
                   ELSE NewProduct(input, active, NextProductId)]
  /\ image' = image \cup NewImages(input, NextProductId, NextImageId - 1)
  /\ variant' = variant \cup NewVariants(input, NextProductId, NextVariantId - 1)
  /\ seq' = [seq EXCEPT !.product = @ + 1, !.image = @ + Len(input.image),
                         !.variant = @ + Len(input.variant)]
  /\ UNCHANGED <<category, membership, settings>>

addProduct(input, active) ==
  /\ NextProductId <= MaxProducts
  /\ NextVariantId + Len(input.variant) - 1 <= MaxVariants
  /\ CreateProduct(input, active)
  /\ Reply(Response("addProduct", 0, 0, input, "ok", FALSE))

\* if (product.isActive) update isActive: false, else update isActive: true,
\* product being the record the lookup returned
StatusUpdate(id, read) ==
  [product EXCEPT ![id].isActive = IF read THEN FALSE ELSE TRUE]

\* mutant: both branches of the handler store isActive false
toggleStatusDeactivates(id) ==
  IF id \in Products
  THEN /\ product' = [product EXCEPT ![id].isActive = FALSE]
       /\ UNCHANGED <<category, membership, image, variant, seq, settings>>
       /\ Reply(Response("toggleStatus", id, 0, NoInput, "ok", product[id].isActive))
  ELSE /\ UNCHANGED storeVars
       /\ Reply(Response("toggleStatus", id, 0, NoInput, "error", FALSE))

\* toggleStatus: find-or-fail lookup, then the update storing the negation
toggleStatus(id) ==
  IF id \in Products
  THEN /\ product' = StatusUpdate(id, product[id].isActive)
       /\ UNCHANGED <<category, membership, image, variant, seq, settings>>
       /\ Reply(Response("toggleStatus", id, 0, NoInput, "ok", product[id].isActive))
  ELSE /\ UNCHANGED storeVars
       /\ Reply(Response("toggleStatus", id, 0, NoInput, "error", FALSE))

\* storeCategory: one create
storeCategory ==
  /\ NextCategoryId <= MaxCategories
  /\ category' = category \cup {NextCategoryId}
  /\ seq' = [seq EXCEPT !.category = @ + 1]
  /\ UNCHANGED <<product, membership, image, variant, settings>>
  /\ Reply(Response("storeCategory", 0, NextCategoryId, NoInput, "ok", FALSE))

\* mutant: the handler connects without clearing first
attachProductToCategoryKeepsOld(productId, categoryId) ==
  /\ UNCHANGED <<product, category, image, variant, seq, settings>>
  /\ IF productId \in Products /\ categoryId \in category
     THEN /\ membership' = Connect(membership, productId, categoryId)
          /\ Reply(Response("attachProductToCategory", productId, categoryId,
                            NoInput, "ok", FALSE))
     ELSE /\ UNCHANGED membership
          /\ Reply(Response("attachProductToCategory", productId, categoryId,
                            NoInput, "error", FALSE))

\* attachProductToCategory: update { set: [] }, then update { connect };
\* either update throws when its record is not found, ending the handler
attachProductToCategory(productId, categoryId) ==
  /\ UNCHANGED <<product, category, image, variant, seq, settings>>
  /\ IF productId \notin Products
     THEN /\ UNCHANGED membership
          /\ Reply(Response("attachProductToCategory", productId, categoryId,
                            NoInput, "error", FALSE))
     ELSE IF categoryId \notin category
     THEN /\ membership' = SetNone(membership, productId)
          /\ Reply(Response("attachProductToCategory", productId, categoryId,
                            NoInput, "error", FALSE))
     ELSE /\ membership' = Connect(SetNone(membership, productId), productId, categoryId)
          /\ Reply(Response("attachProductToCategory", productId, categoryId,
                            NoInput, "ok", FALSE))

\* removeAllCategories: update { set: [] }
removeAllCategories(productId) ==
  /\ UNCHANGED <<product, category, image, variant, seq, settings>>
  /\ IF productId \in Products
     THEN /\ membership' = SetNone(membership, productId)
          /\ Reply(Response("removeAllCategories", productId, 0, NoInput, "ok", FALSE))
     ELSE /\ UNCHANGED membership
          /\ Reply(Response("removeAllCategories", productId, 0, NoInput, "error", FALSE))

\* mutant: a delete that ignores a missing record (deleteMany)
removeVariantIgnoresMissing(id) ==
  /\ UNCHANGED <<product, category, membership, image, seq, settings>>
  /\ variant' = {v \in variant : v.id # id}
  /\ Reply(Response("removeVariant", id, 0, NoInput, "ok", FALSE))

\* removeVariant: delete by id, which throws when no record has the id
removeVariant(id) ==
  /\ UNCHANGED <<product, category, membership, image, seq, settings>>
  /\ IF id \in variantIds
     THEN /\ variant' = {v \in variant : v.id # id}
          /\ Reply(Response("removeVariant", id, 0, NoInput, "ok", FALSE))
     ELSE /\ UNCHANGED variant
          /\ Reply(Response("removeVariant", id, 0, NoInput, "error", FALSE))

\* ------------------------------------------------------------- settings
SettingNames == {"banner", "promo"}
SettingValues == {"x", "y"}

\* a query that resolves with null
Null == [null |-> TRUE]

\* mutant: a create where the handler has an upsert
setBannerTextCreates(name, value) ==
  /\ settings' = settings \cup {[name |-> name, value |-> value]}
  /\ UNCHANGED <<product, category, membership, image, variant, seq>>
  /\ Reply(Response("setBannerText", 0, 0, [name |-> name, value |-> value], "ok", FALSE))

\* setBannerText: upsert where name; the row of that name takes the value, and
\* is created when there is none
setBannerText(name, value) ==
  /\ settings' = IF \E r \in settings : r.name = name
                  THEN {IF r.name = name THEN [r EXCEPT !.value = value] ELSE r
                          : r \in settings}
                  ELSE settings \cup {[name |-> name, value |-> value]}
  /\ UNCHANGED <<product, category, membership, image, variant, seq>>
  /\ Reply(Response("setBannerText", 0, 0, [name |-> name, value |-> value], "ok", FALSE))

\* getBannerText: findUnique where name "banner" inside try, its result
\* returned; the catch logs a failed read and returns null
getBannerText(fails) ==
  /\ UNCHANGED storeVars
  /\ Reply(Response("getBannerText", 0, 0, NoInput, "ok",
                    IF fails \/ ~\E r \in settings : r.name = "banner"
                    THEN Null
                    ELSE CHOOSE r \in settings : r.name = "banner"))

\* ------------------------------------------------------------- queries
RECURSIVE NewestFirst(_)
\* orderBy: { createdAt: 'desc' }
NewestFirst(S) ==
  IF S = {} THEN <<>>
  ELSE LET p == CHOOSE x \in S : \A y \in S : product[y].createdAt <= product[x].createdAt
       IN <<p>> \o NewestFirst(S \ {p})

\* include: { images: true, categories: true }
Row(p) == [id |-> p, product |-> product[p], images |-> imagesOf(p),
           categories |-> categoriesOf(p)]

Rows(ids) == [k \in 1..Len(ids) |-> Row(ids[k])]

All == 0

getActiveProducts ==
  Rows(NewestFirst({p \in Products : product[p].isActive}))

\* mutant: no branch for the sentinel, which is then looked up as a category
getActiveProductsByCategoryNoSentinel(id) ==
  Rows(NewestFirst({p \in Products :
                      product[p].isActive /\ id \in categoriesOf(p)}))

getActiveProductsByCategory(id) ==
  IF id = All
  THEN Rows(NewestFirst({p \in Products : product[p].isActive}))
  ELSE Rows(NewestFirst({p \in Products :
                           product[p].isActive /\ id \in categoriesOf(p)}))

\* ------------------------------------------- handlers, one store call a step
Calls == 1..MaxCalls

Idle == [op |-> "none", id |-> 0, cat |-> 0, pc |-> "idle", read |-> FALSE]

InFlight == {c \in Calls : calls[c].pc # "idle"}

\* a request arrives: it takes the first free slot
Free(c) == calls[c].pc = "idle" /\ \A d \in Calls : d < c => calls[d].pc # "idle"

\* toggleStatus up to its first await: findUniqueOrThrow
toggleStatusLookup(c, id) ==
  /\ Free(c)
  /\ UNCHANGED storeVars
  /\ IF id \in Products
     THEN /\ calls' = [calls EXCEPT ![c] = [op |-> "toggleStatus", id |-> id, cat |-> 0,
                                            pc |-> "update", read |-> product[id].isActive]]
          /\ UNCHANGED <<resp, prev, tasks, formVars>>
     ELSE /\ Completes(Response("toggleStatus", id, 0, NoInput, "error", FALSE))
          /\ UNCHANGED <<calls, tasks>>

\* toggleStatus from the lookup's result on: the update, then return product
toggleStatusUpdate(c) ==
  /\ calls[c].op = "toggleStatus" /\ calls[c].pc = "update"
  /\ product' = StatusUpdate(calls[c].id, calls[c].read)
  /\ UNCHANGED <<category, membership, image, variant, seq, settings>>
  /\ calls' = [calls EXCEPT ![c] = Idle]
  /\ UNCHANGED tasks
  /\ Completes(Response("toggleStatus", calls[c].id, 0, NoInput, "ok", calls[c].read))

\* attachProductToCategory up to its first await: update { set: [] }
attachClear(c, productId, categoryId) ==
  /\ Free(c)
  /\ UNCHANGED <<product, category, image, variant, seq, settings, tasks>>
  /\ IF productId \in Products
     THEN /\ membership' = SetNone(membership, productId)
          /\ calls' = [calls EXCEPT ![c] = [op |-> "attachProductToCategory",
                                            id |-> productId, cat |-> categoryId,
                                            pc |-> "connect", read |-> FALSE]]
          /\ UNCHANGED <<resp, prev, formVars>>
     ELSE /\ UNCHANGED <<membership, calls>>
          /\ Completes(Response("attachProductToCategory", productId, categoryId,
                                NoInput, "error", FALSE))

\* attachProductToCategory after the first update: update { connect }
attachConnect(c) ==
  /\ calls[c].op = "attachProductToCategory" /\ calls[c].pc = "connect"
  /\ UNCHANGED <<product, category, image, variant, seq, settings, tasks>>
  /\ calls' = [calls EXCEPT ![c] = Idle]
  /\ IF calls[c].cat \in category
     THEN /\ membership' = Connect(membership, calls[c].id, calls[c].cat)
          /\ Completes(Response("attachProductToCategory", calls[c].id, calls[c].cat,
                                NoInput, "ok", FALSE))
     ELSE /\ UNCHANGED membership
          /\ Completes(Response("attachProductToCategory", calls[c].id, calls[c].cat,
                                NoInput, "error", FALSE))

\* ------------------------------------------------------------- addVariant
\* the entries a batch is made of: creates for a product id, updates of a
\* variant id (the input schema requires a non-empty name and imageSrc)
VariantEntries ==
  {[id |-> 0, name |-> <<"r">>, imageSrc |-> <<"C", "k">>, add |-> TRUE, productId |-> p]
     : p \in ProductIds}
  \cup
  {[id |-> v, name |-> <<"g">>, imageSrc |-> <<"C", "m">>, add |-> FALSE, productId |-> 0]
     : v \in VariantIds}

Batches == {<<e>> : e \in VariantEntries} \cup {<<d, e>> : d, e \in VariantEntries}

\* addVariant: forEach starts one async callback per entry, each running to its
\* store call, and awaits none of them; the handler then returns, so the
\* mutation resolves whatever the callbacks go on to do
addVariant(batch) ==
  /\ Len(tasks) + Len(batch) <= MaxTasks
  /\ tasks' = tasks \o [k \in 1..Len(batch) |->
                          [entry |-> batch[k], response |-> "ok", state |-> "pending",
                           made |-> 0]]
  /\ UNCHANGED <<storeVars, calls>>
  /\ Completes(Response("addVariant", 0, 0, NoInput, "ok", FALSE))

\* variant.create: the product id must be that of a product
CreateVariant(i) ==
  LET e == tasks[i].entry
  IN IF e.productId \in Products
     THEN /\ variant' = variant \cup
                 {[id |-> NextVariantId, name |-> e.name, imageSrc |-> e.imageSrc,
                   type |-> "color", productId |-> e.productId]}
          /\ seq' = [seq EXCEPT !.variant = @ + 1]
          /\ tasks' = [tasks EXCEPT ![i].state = "ok", ![i].made = NextVariantId]
     ELSE /\ UNCHANGED <<variant, seq, settings>>
          /\ tasks' = [tasks EXCEPT ![i].state = "error"]

\* variant.update where id: throws when no variant has the id
UpdateVariant(i) ==
  LET e == tasks[i].entry
  IN IF e.id \in variantIds
     THEN /\ variant' = {IF v.id = e.id
                         THEN [v EXCEPT !.name = e.name, !.imageSrc = e.imageSrc]
                         ELSE v : v \in variant}
          /\ UNCHANGED seq
          /\ tasks' = [tasks EXCEPT ![i].state = "ok"]
     ELSE /\ UNCHANGED <<variant, seq, settings>>
          /\ tasks' = [tasks EXCEPT ![i].state = "error"]

\* mutant: the batch runs as one transaction, a failing entry undoing the
\* variants the batch has created
variantTaskRollsBack(i) ==
  /\ i \in 1..Len(tasks) /\ tasks[i].state = "pending"
  /\ IF tasks[i].entry.add
     THEN CreateVariant(i)
     ELSE IF tasks[i].entry.id \in variantIds
     THEN UpdateVariant(i)
     ELSE /\ variant' = {v \in variant : v.id \notin {tasks[k].made : k \in 1..Len(tasks)}}
          /\ UNCHANGED seq
          /\ tasks' = [tasks EXCEPT ![i].state = "error"]
  /\ UNCHANGED <<product, category, membership, image, settings, resp, prev, calls, formVars>>

\* one entry's callback from its store call on: the store settles the call; a
\* rejection ends that callback alone and reaches no caller
variantTask(i) ==
  /\ i \in 1..Len(tasks) /\ tasks[i].state = "pending"
  /\ IF tasks[i].entry.add THEN CreateVariant(i) ELSE UpdateVariant(i)
  /\ UNCHANGED <<product, category, membership, image, settings, resp, prev, calls, formVars>>

\* ------------------------------------------------------------- the form
StorageHost == "S"    \* 'https://hustlermy-dev.s3.ap-southeast-1.amazonaws.com'
CdnHost == "C"        \* 'https://d1sah57fmj9klu.cloudfront.net'

\* the files an operator picks; the name of a file is its object key
Files == {"k", "m"}

\* picker events: the FileList of the change event, possibly empty
FileLists == UNION {[1..n -> Files] : n \in 0..MaxFiles}

\* uploadToS3: the url of the stored object, under the storage domain
UploadUrl(file) == <<StorageHost, file>>

\* the index of the first segment of url that is from, 0 when there is none
IndexOf(url, from) ==
  IF \E i \in 1..Len(url) : url[i] = from
  THEN CHOOSE i \in 1..Len(url) : url[i] = from /\ \A j \in 1..(i - 1) : url[j] # from
  ELSE 0

\* url.replace(from, to): the first occurrence of from becomes to
Replace(url, from, to) ==
  IF IndexOf(url, from) = 0 THEN url
  ELSE [i \in 1..Len(url) |-> IF i = IndexOf(url, from) THEN to ELSE url[i]]

\* mutant: the pattern names another bucket, so nothing is replaced
CloudFrontUrlOtherBucket(url) == Replace(url, "hustlermy-prod", CdnHost)

CloudFrontUrl(url) == Replace(url, StorageHost, CdnHost)

NameMax == 100
SrcMax == 1000
VariantSrcMax == 10000

\* the zod schema the resolver validates the form's values against
Valid(f) ==
  /\ Len(f.name) >= 1 /\ Len(f.name) <= NameMax
  /\ Len(f.price) >= 1 /\ Len(f.price) <= NameMax
  /\ Len(f.weight) >= 1 /\ Len(f.weight) <= NameMax
  /\ Len(f.description) >= 1
  /\ \A i \in 1..Len(f.image) :
       Len(f.image[i].src) >= 1 /\ Len(f.image[i].src) <= SrcMax
  /\ \A i \in 1..Len(f.variant) :
       /\ Len(f.variant[i].name) >= 1 /\ Len(f.variant[i].name) <= NameMax
       /\ Len(f.variant[i].imageSrc) >= 1 /\ Len(f.variant[i].imageSrc) <= VariantSrcMax

\* useForm defaultValues; the text inputs start empty
DefaultValues ==
  [name |-> <<>>, price |-> <<>>, weight |-> <<>>, description |-> <<>>,
   image |-> <<[src |-> <<>>]>>, variant |-> <<[name |-> <<>>, imageSrc |-> <<>>]>>]

BlankRow == [name |-> <<>>, imageSrc |-> <<>>]

FieldValues ==
  [name |-> {<<>>, <<"a">>}, price |-> {<<>>, <<"1", "5">>},
   weight |-> {<<>>, <<"1", ".", "5">>}, description |-> {<<>>, <<"d">>}]

formOnly == <<serviceVars, mutation, open, effects>>

\* the operator acts on the dialog while it is shown and no submission is
\* under way
Editing == open /\ mutation.state # "loading"

\* the operator edits one of the registered text inputs (or the rich text)
editField(field, value) ==
  /\ Editing
  /\ form' = [form EXCEPT ![field] = value]
  /\ UNCHANGED <<formOnly, imagePreviews, handlers, lastUpload>>

editVariantName(index, value) ==
  /\ Editing /\ index \in 1..Len(form.variant)
  /\ form' = [form EXCEPT !.variant[index].name = value]
  /\ UNCHANGED <<formOnly, imagePreviews, handlers, lastUpload>>

\* append({ name: "", imageSrc: "" })
appendVariant ==
  /\ Editing /\ Len(form.variant) < MaxRows
  /\ form' = [form EXCEPT !.variant = Append(@, BlankRow)]
  /\ UNCHANGED <<formOnly, imagePreviews, handlers, lastUpload>>

Ended(outcome, uploaded) == [outcome |-> outcome, uploaded |-> uploaded]

RemoveAt(s, index) == SubSeq(s, 1, index - 1) \o SubSeq(s, index + 1, Len(s))

\* useFieldArray keeps an id for each item: removing the item at index moves
\* the items after it one place down, while a handler keeps the index it was
\* called with
Moved(hs, index) ==
  [h \in 1..Len(hs) |->
     [hs[h] EXCEPT !.field = IF @ = index THEN 0 ELSE IF @ > index THEN @ - 1 ELSE @]]

\* remove(index)
removeVariantRow(index) ==
  /\ Editing /\ index \in 1..Len(form.variant)
  /\ form' = [form EXCEPT !.variant = RemoveAt(@, index)]
  /\ handlers' = Moved(handlers, index)
  /\ UNCHANGED <<formOnly, imagePreviews, lastUpload>>

\* onProductImageChange up to its first await: with no file the loop body
\* never runs and the handler ends at once; otherwise it makes the first
\* file's preview and awaits its upload
onProductImageChange(files) ==
  /\ Editing /\ ~imagePreviews.defined
  /\ IF files = <<>>
     THEN /\ imagePreviews' = [defined |-> TRUE, list |-> <<>>]
          /\ form' = [form EXCEPT !.image = <<>>]
          /\ lastUpload' = Ended("done", 0)
          /\ UNCHANGED handlers
     ELSE /\ handlers' = Append(handlers,
                 [kind |-> "initial", files |-> files, at |-> 1,
                  images |-> <<files[1]>>, urls |-> <<>>, index |-> 0, field |-> 0])
          /\ UNCHANGED <<form, imagePreviews, lastUpload>>
  /\ UNCHANGED formOnly

\* handleAddMoreImages up to its await: it uploads files[0] alone; with no
\* file the upload call throws and the handler ends there
handleAddMoreImages(files) ==
  /\ Editing /\ imagePreviews.defined
  /\ IF files = <<>>
     THEN /\ lastUpload' = Ended("failed", 0)
          /\ UNCHANGED handlers
     ELSE /\ handlers' = Append(handlers,
                 [kind |-> "more", files |-> files, at |-> 1,
                  images |-> imagePreviews.list, urls |-> <<>>, index |-> 0, field |-> 0])
          /\ UNCHANGED lastUpload
  /\ UNCHANGED <<formOnly, form, imagePreviews>>

\* onVariantImageChange(e, index) up to its await
onVariantImageChange(file, index) ==
  /\ Editing /\ index \in 1..Len(form.variant)
  /\ handlers' = Append(handlers,
         [kind |-> "variant", files |-> <<file>>, at |-> 1,
          images |-> <<>>, urls |-> <<>>, index |-> index, field |-> index])
  /\ UNCHANGED <<formOnly, form, imagePreviews, lastUpload>>

\* setValue(`variant.${index}.imageSrc`, url): the path is made when the row
\* is gone, leaving rows without a name
SetVariantImage(rows, index, url) ==
  [i \in 1..(IF index > Len(rows) THEN index ELSE Len(rows)) |->
     IF i = index
     THEN [name |-> IF i <= Len(rows) THEN rows[i].name ELSE <<>>, imageSrc |-> url]
     ELSE IF i <= Len(rows) THEN rows[i] ELSE BlankRow]

\* the upload a handler awaits resolves: the handler runs on to its next
\* await or to its end
uploadResolves(h) ==
  /\ h \in 1..Len(handlers)
  /\ LET r == handlers[h]
         url == CloudFrontUrl(UploadUrl(r.files[r.at]))
     IN CASE r.kind = "initial" /\ r.at < Len(r.files) ->
               /\ handlers' = [handlers EXCEPT ![h].at = r.at + 1,
                                  ![h].images = Append(r.images, r.files[r.at + 1]),
                                  ![h].urls = Append(r.urls, url)]
               /\ UNCHANGED <<form, imagePreviews, lastUpload>>
          [] r.kind = "initial" /\ r.at = Len(r.files) ->
               /\ handlers' = RemoveAt(handlers, h)
               /\ lastUpload' = Ended("done", r.at)
               /\ imagePreviews' = [defined |-> TRUE, list |-> r.images]
               /\ form' = [form EXCEPT !.image =
                             [i \in 1..Len(r.urls) + 1 |->
                                [src |-> Append(r.urls, url)[i]]]]
          [] r.kind = "more" ->
               /\ handlers' = RemoveAt(handlers, h)
               /\ lastUpload' = Ended("done", 1)
               /\ form' = [form EXCEPT !.image = Append(@, [src |-> url])]
               /\ imagePreviews' = [defined |-> TRUE, list |-> Append(r.images, r.files[1])]
          [] r.kind = "variant" ->
               /\ handlers' = RemoveAt(handlers, h)
               /\ lastUpload' = Ended("done", 1)
               /\ form' = [form EXCEPT !.variant = SetVariantImage(@, r.index, url)]
               /\ UNCHANGED imagePreviews
  /\ UNCHANGED formOnly

\* mutant: a handler whose upload rejects keeps what it has uploaded so far
uploadRejectsKeepsUploaded(h) ==
  /\ h \in 1..Len(handlers)
  /\ handlers' = RemoveAt(handlers, h)
  /\ lastUpload' = Ended("failed", handlers[h].at - 1)
  /\ IF handlers[h].kind = "initial"
     THEN /\ form' = [form EXCEPT !.image =
                        [i \in 1..Len(handlers[h].urls) |-> [src |-> handlers[h].urls[i]]]]
          /\ imagePreviews' = [defined |-> TRUE, list |-> handlers[h].images]
     ELSE UNCHANGED <<form, imagePreviews>>
  /\ UNCHANGED formOnly

\* the upload a handler awaits rejects: the handler ends there
uploadRejects(h) ==
  /\ h \in 1..Len(handlers)
  /\ handlers' = RemoveAt(handlers, h)
  /\ lastUpload' = Ended("failed", handlers[h].at - 1)
  /\ UNCHANGED <<formOnly, form, imagePreviews>>

NoMutation == [state |-> "idle", payload |-> NoInput]

\* handleSubmit(onSubmit): onSubmit runs with the values when the resolver
\* accepts them, and starts the mutation
submit ==
  /\ Editing
  /\ Valid(form)
  /\ mutation' = [state |-> "loading", payload |-> form]
  /\ UNCHANGED <<serviceVars, form, imagePreviews, handlers, open, effects, lastUpload>>

\* mutant: the notification is raised before the dialog is closed
ThenChainNotifyFirst(data) ==
  << [kind |-> "notify", name |-> data.name],
     [kind |-> "close", name |-> <<>>],
     [kind |-> "refetch", name |-> <<>>] >>

\* the callbacks chained on mutateAsync(data), in the order they run: the
\* first then closes the dialog, the second raises the notification naming
\* data.name and then refetches the product list
ThenChain(data) ==
  << [kind |-> "close", name |-> <<>>],
     [kind |-> "notify", name |-> data.name],
     [kind |-> "refetch", name |-> <<>>] >>

\* the mutation succeeds: the router has run addProduct on the payload, and
\* the then chain runs
mutationSucceeds(active) ==
  /\ mutation.state = "loading"
  /\ NextProductId <= MaxProducts
  /\ CreateProduct(mutation.payload, active)
  /\ Logs(Response("addProduct", 0, 0, mutation.payload, "ok", FALSE))
  /\ mutation' = [state |-> "success", payload |-> NoInput]
  /\ open' = FALSE
  /\ effects' = effects \o ThenChain(mutation.payload)
  /\ UNCHANGED <<calls, tasks, form, imagePreviews, handlers, lastUpload>>

\* the mutation fails: nothing is chained on the rejection
mutationFails ==
  /\ mutation.state = "loading"
  /\ mutation' = [state |-> "error", payload |-> NoInput]
  /\ UNCHANGED <<serviceVars, form, imagePreviews, handlers, open, effects, lastUpload>>

\* the Cancel button: setOpen(false)
cancel ==
  /\ open
  /\ open' = FALSE
  /\ UNCHANGED <<serviceVars, form, imagePreviews, handlers, mutation, effects, lastUpload>>

Init ==
  /\ product = <<>>
  /\ category = {}
  /\ membership = {}
  /\ image = {}
  /\ variant = {}
  /\ seq = [product |-> 0, category |-> 0, image |-> 0, variant |-> 0]
  /\ settings = {}
  /\ resp = NoResponse
  /\ prev = NoResponse
  /\ calls = [c \in Calls |-> Idle]
  /\ tasks = <<>>
  /\ form = DefaultValues
  /\ imagePreviews = [defined |-> FALSE, list |-> <<>>]
  /\ handlers = <<>>
  /\ mutation = NoMutation
  /\ open = TRUE
  /\ effects = <<>>
  /\ lastUpload = Ended("none", 0)

\* product status and category membership, one request at a time
Next ==
  \/ \E input \in SeedInputs, active \in BOOLEAN : addProduct(input, active)
  \/ \E id \in ProductIds : toggleStatus(id)
  \/ storeCategory
  \/ \E p \in ProductIds, c \in CategoryIds : attachProductToCategory(p, c)
  \/ \E p \in ProductIds : removeAllCategories(p)

\* the settings procedures, one request at a time; a store read may fail
SettingsNext ==
  \/ \E name \in SettingNames, value \in SettingValues : setBannerText(name, value)
  \/ \E fails \in BOOLEAN : getBannerText(fails)

SettingsSpec == Init /\ [][SettingsNext]_vars

\* product creation and variant removal, one request at a time
CatalogNext ==
  \/ \E input \in ProductInputs, active \in BOOLEAN : addProduct(input, active)
  \/ \E id \in VariantIds : removeVariant(id)

CatalogSpec == Init /\ [][CatalogNext]_vars

Spec == Init /\ [][Next]_vars

\* product status and category membership, requests overlapping: a handler
\* with two store calls takes two steps, and other requests may run between
ConcNext ==
  \/ \E input \in SeedInputs, active \in BOOLEAN : addProduct(input, active)
  \/ storeCategory
  \/ \E c \in Calls, id \in ProductIds : toggleStatusLookup(c, id)
  \/ \E c \in Calls : toggleStatusUpdate(c)
  \/ \E c \in Calls, p \in ProductIds, k \in CategoryIds : attachClear(c, p, k)
  \/ \E c \in Calls : attachConnect(c)
  \/ \E p \in ProductIds : removeAllCategories(p)

ConcSpec == Init /\ [][ConcNext]_vars

\* batched variant edits: the store settles the entries' calls in any order,
\* after the mutation has resolved
BatchNext ==
  \/ \E input \in SeedInputs, active \in BOOLEAN : addProduct(input, active)
  \/ \E batch \in Batches : addVariant(batch)
  \/ \E i \in 1..MaxTasks : variantTask(i)

BatchSpec == Init /\ [][BatchNext]_vars

\* the product creation form, from the dialog being shown to its product, for
\* an operator who picks copies of one file and lets an upload finish before
\* the next picker event
OneFileLists == {fs \in FileLists : \A i \in 1..Len(fs) : fs[i] = "k"}

Waited == handlers = <<>>

FormNext ==
  \/ \E field \in DOMAIN FieldValues, value \in UNION {FieldValues[x] : x \in DOMAIN FieldValues} :
        value \in FieldValues[field] /\ editField(field, value)
  \/ \E index \in 1..MaxRows, value \in {<<>>, <<"r">>} : editVariantName(index, value)
  \/ appendVariant
  \/ \E index \in 1..MaxRows : removeVariantRow(index)
  \/ \E files \in OneFileLists : Waited /\ onProductImageChange(files)
  \/ \E files \in OneFileLists : Waited /\ Len(form.image) < MaxImages
                                     /\ handleAddMoreImages(files)
  \/ \E index \in 1..MaxRows : Waited /\ onVariantImageChange("k", index)
  \/ \E h \in 1..Len(handlers) : uploadResolves(h)
  \/ \E h \in 1..Len(handlers) : uploadRejects(h)
  \/ submit
  \/ \E active \in BOOLEAN : mutationSucceeds(active)
  \/ mutationFails
  \/ cancel

FormSpec == Init /\ [][FormNext]_vars

\* the pickers and the variant rows of the form, for an operator who does not
\* wait: a picker is used while uploads started earlier are in flight
Room == Len(handlers) < MaxHandlers

UploadNext ==
  \/ \E files \in FileLists : Room /\ onProductImageChange(files)
  \/ \E files \in FileLists : Room /\ Len(form.image) < MaxImages
                                   /\ handleAddMoreImages(files)
  \/ \E index \in 1..MaxRows : Room /\ onVariantImageChange("k", index)
  \/ \E h \in 1..Len(handlers) : uploadResolves(h)
  \/ \E h \in 1..Len(handlers) : uploadRejects(h)
  \/ appendVariant
  \/ \E index \in 1..MaxRows : removeVariantRow(index)

UploadSpec == Init /\ [][UploadNext]_vars

\* ------------------------------------------------------------- claims

\* C1: a toggleStatus call on an existing product returns the product as read
\* and stores the negation of its isActive, so the second of two calls run one
\* after the other on the same id leaves isActive at the value before the
\* first; a call whose id matches no product fails and changes no product.
C1_Step ==
  resp'.op = "toggleStatus" =>
    IF resp'.id \in Products
    THEN /\ resp'.status = "ok"
         /\ resp'.ret = product[resp'.id].isActive
         /\ product'[resp'.id].isActive = ~product[resp'.id].isActive
         /\ (resp.op = "toggleStatus" /\ resp.status = "ok" /\ resp.id = resp'.id
               => product'[resp'.id].isActive = resp.ret)
    ELSE /\ resp'.status = "error"
         /\ product' = product

C1_ToggleTwiceRestores == [][C1_Step]_vars

C1_Witness ==
  /\ prev.op = "toggleStatus" /\ prev.status = "ok"
  /\ resp.op = "toggleStatus" /\ resp.status = "ok"
  /\ prev.id = resp.id
  /\ product[resp.id].isActive = prev.ret

\* C2: after attachProductToCategory(p, A) and then attachProductToCategory(p, B)
\* have both completed, the categories of p are exactly {B}.
C2_AttachTwice ==
  ( /\ prev.op = "attachProductToCategory" /\ prev.status = "ok"
    /\ resp.op = "attachProductToCategory" /\ resp.status = "ok"
    /\ prev.id = resp.id )
  => categoriesOf(resp.id) = {resp.cat}

C2_Witness ==
  /\ prev.op = "attachProductToCategory" /\ prev.status = "ok"
  /\ resp.op = "attachProductToCategory" /\ resp.status = "ok"
  /\ prev.id = resp.id /\ prev.cat # resp.cat
  /\ categoriesOf(resp.id) = {resp.cat}

\* C6: removeVariant with an id that matches no variant ends in an error and
\* leaves the variants as they were; with an id that matches a variant it
\* removes that variant and no other.
C6_Step ==
  resp'.op = "removeVariant" =>
    IF resp'.id \in variantIds
    THEN /\ resp'.status = "ok"
         /\ variant' = variant \ {v \in variant : v.id = resp'.id}
         /\ Cardinality(variant') = Cardinality(variant) - 1
    ELSE /\ resp'.status = "error"
         /\ variant' = variant

C6_RemoveVariant == [][C6_Step]_vars

C6_Witness ==
  /\ prev.op = "removeVariant" /\ prev.status = "ok"
  /\ resp.op = "removeVariant" /\ resp.status = "error" /\ resp.id = prev.id
  /\ variant # {}

\* C9: a successful addProduct call adds exactly one product, with the input's
\* name and description and the numeric parse of its price and weight, one
\* image record per image entry (src as given, alt the product name) and one
\* variant record per variant entry (name and imageSrc as given, type
\* "color"), all owned by the new product, and changes nothing else.
\* records holds exactly one record for each of the n entries: a one-to-one
\* map of 1..n onto records, entry k and its record being a pair of matches
OneEach(n, records, matches) ==
  \E f \in [1..n -> records] :
    /\ \A r \in records : \E k \in 1..n : f[k] = r
    /\ \A j, k \in 1..n : f[j] = f[k] => j = k
    /\ \A k \in 1..n : <<k, f[k]>> \in matches

C9_Step ==
  (resp'.op = "addProduct" /\ resp'.status = "ok") =>
    LET in == resp'.input
        created == DOMAIN product' \ DOMAIN product
        p == CHOOSE x \in created : TRUE
        newImages == image' \ image
        newVariants == variant' \ variant
        imageOf == {x \in (1..Len(in.image)) \X newImages :
                      /\ x[2].src = in.image[x[1]].src
                      /\ x[2].alt = in.name /\ x[2].productId = p}
        variantOf == {x \in (1..Len(in.variant)) \X newVariants :
                        /\ x[2].name = in.variant[x[1]].name
                        /\ x[2].imageSrc = in.variant[x[1]].imageSrc
                        /\ x[2].type = "color" /\ x[2].productId = p}
    IN /\ Cardinality(created) = 1
       /\ DOMAIN product \subseteq DOMAIN product'
       /\ \A q \in DOMAIN product : product'[q] = product[q]
       /\ product'[p].name = in.name
       /\ product'[p].description = in.description
       /\ product'[p].price = parseFloat(in.price)
       /\ product'[p].weight = parseFloat(in.weight)
       /\ image \subseteq image' /\ variant \subseteq variant'
       /\ OneEach(Len(in.image), newImages, imageOf)
       /\ OneEach(Len(in.variant), newVariants, variantOf)
       /\ \A i \in newImages : i.id \notin {x.id : x \in image}
       /\ \A v \in newVariants : v.id \notin variantIds
       /\ category' = category /\ membership' = membership

C9_AddProduct == [][C9_Step]_vars

C9_Witness ==
  /\ resp.op = "addProduct" /\ resp.status = "ok"
  /\ prev.op = "addProduct"
  /\ Len(resp.input.image) = 2 /\ Len(resp.input.variant) = 2
  /\ \E p \in Products :
       /\ product[p].name = resp.input.name
       /\ product[p].price = NaN
       /\ Cardinality(imagesOf(p)) = 2 /\ Cardinality(variantsOf(p)) = 2

\* C10: getActiveProductsByCategory with id "all" returns the rows of
\* getActiveProducts in the same order: one row for each product with
\* isActive true and no other, newest first.
C10_AllIsActive ==
  LET rows == getActiveProductsByCategory(All)
  IN /\ rows = getActiveProducts
     /\ {rows[k].id : k \in 1..Len(rows)} = {p \in Products : product[p].isActive}
     /\ Len(rows) = Cardinality({p \in Products : product[p].isActive})
     /\ \A j, k \in 1..Len(rows) :
          j < k => rows[j].product.createdAt > rows[k].product.createdAt

C10_Witness ==
  /\ Len(getActiveProductsByCategory(All)) >= 2
  /\ prev.op = "toggleStatus" /\ resp.op = "attachProductToCategory"
  /\ \E p \in Products : product[p].isActive /\ categoriesOf(p) = {}
  /\ \E p \in Products : product[p].isActive /\ categoriesOf(p) # {}

\* C3: once every issued attachProductToCategory and removeAllCategories call
\* has completed, every product belongs to at most one category, also when
\* calls on the same product overlapped.
C3_Singular ==
  InFlight = {} => \A p \in Products : Cardinality(categoriesOf(p)) <= 1

\* C4: addVariant has no cross-entry atomicity: the create entry of a batch is
\* carried out for an existing product whatever the position and the outcome
\* of the other entries, a failing entry changes no variant, and the variant
\* a create entry made stays in the store.
Settles(i) == tasks[i].state = "pending" /\ tasks'[i].state # "pending"

C4_Persisted ==
  \A i \in 1..Len(tasks) :
    (tasks[i].entry.add /\ tasks[i].state = "ok") =>
      \E v \in variant :
        v.id = tasks[i].made /\ v.productId = tasks[i].entry.productId

C4_Step ==
  \A i \in 1..Len(tasks) :
    Settles(i) =>
      /\ (tasks[i].entry.add /\ tasks[i].entry.productId \in Products)
            => /\ tasks'[i].state = "ok"
               /\ tasks'[i].made \notin variantIds
               /\ variant' = variant \cup
                     {[id |-> tasks'[i].made, name |-> tasks[i].entry.name,
                       imageSrc |-> tasks[i].entry.imageSrc, type |-> "color",
                       productId |-> tasks[i].entry.productId]}
      /\ tasks'[i].state = "error" => variant' = variant
      /\ \A k \in 1..Len(tasks) : k # i => tasks'[k] = tasks[k]

C4_NoAtomicity == []C4_Persisted /\ [][C4_Step]_vars

C4_Witness ==
  /\ Len(tasks) = 2
  /\ ~tasks[1].entry.add /\ tasks[1].state = "error"
  /\ tasks[2].entry.add /\ tasks[2].state = "ok"
  /\ \E v \in variant : v.id = tasks[2].made

\* C5: whenever a store call made on behalf of an operation raises an error,
\* the operation's call ends in failure for its caller; here for the store
\* calls addVariant makes for its entries.
C5_ErrorsPropagate ==
  \A i \in 1..Len(tasks) : tasks[i].state = "error" => tasks[i].response = "error"

\* C7: every product image src of a payload the form sends to addProduct, and
\* so every image record of the product created from it, has the CDN host
\* and not the storage host.
Host(url) == IF url = <<>> THEN "" ELSE url[1]

C8_PayloadComplete ==
  mutation.state = "loading" =>
    LET data == mutation.payload
    IN /\ data.name # <<>> /\ data.price # <<>>
       /\ data.weight # <<>> /\ data.description # <<>>
       /\ Len(data.image) >= 1
       /\ \A i \in 1..Len(data.image) : data.image[i].src # <<>>
       /\ \A i \in 1..Len(data.variant) :
            data.variant[i].name # <<>> /\ data.variant[i].imageSrc # <<>>

\* C11: the dialog close, the notification naming the product and the refetch
\* of onSubmit happen only once the addProduct mutation has succeeded, in the
\* order close, notification, refetch; when the mutation fails none of them
\* happens, the dialog stays open and the form's values stay as they are.
C11_AfterSuccess ==
  IF mutation.state = "success"
  THEN /\ resp.op = "addProduct" /\ resp.status = "ok"
       /\ Len(effects) = 3
       /\ effects[1].kind = "close"
       /\ effects[2].kind = "notify" /\ effects[2].name = resp.input.name
       /\ effects[3].kind = "refetch"
       /\ ~open
  ELSE effects = <<>>

C11_Failure ==
  (mutation.state = "loading" /\ mutation'.state = "error") =>
    /\ effects' = effects
    /\ open' = open
    /\ form' = form

C11_ThenChain == []C11_AfterSuccess /\ [][C11_Failure]_vars

C11_Witness ==
  /\ mutation.state = "success"
  /\ effects = ThenChain([name |-> <<"a">>])
  /\ \E p \in Products : product[p].name = <<"a">>
  /\ ~open

\* C12: when an add-more picker event completes, the form's image list is the
\* list as it was, in the same order, followed by one CDN url for each file of
\* the event.
C12_Step ==
  \A h \in 1..Len(handlers) :
    ( /\ handlers[h].kind = "more"
      /\ handlers' = RemoveAt(handlers, h)
      /\ lastUpload'.outcome = "done" )
    => LET files == handlers[h].files
       IN /\ Len(form'.image) = Len(form.image) + Len(files)
          /\ \A i \in 1..Len(form.image) : form'.image[i] = form.image[i]
          /\ \A k \in 1..Len(files) :
               form'.image[Len(form.image) + k].src = <<CdnHost, files[k]>>

C12_AppendsEach == [][C12_Step]_vars

\* C13: at every moment at most one upload is in flight, whichever pickers
\* the uploads were started from (each handler in flight awaits one upload).
C13_OneAtATime == Len(handlers) <= 1

\* C18: when the upload started from a variant row completes, the CDN url is
\* the imageSrc of that row and no other row is changed, also when rows were
\* appended or removed while the upload was in flight.
C18_Step ==
  \A h \in 1..Len(handlers) :
    ( /\ handlers[h].kind = "variant"
      /\ handlers' = RemoveAt(handlers, h)
      /\ lastUpload'.outcome = "done" )
    => LET row == handlers[h].field
           url == <<CdnHost, handlers[h].files[1]>>
       IN IF row = 0
          THEN form'.variant = form.variant
          ELSE /\ Len(form'.variant) = Len(form.variant)
               /\ form'.variant[row].imageSrc = url
               /\ form'.variant[row].name = form.variant[row].name
               /\ \A i \in 1..Len(form.variant) :
                    i # row => form'.variant[i] = form.variant[i]

C18_RowScoped == [][C18_Step]_vars

\* C20: whenever no product-image handler is in flight and a picker event has
\* completed, there are as many previews as entries of the form's image list,
\* and the i-th preview is of the file whose url is the i-th entry.
C20_PreviewsMatch ==
  ( /\ imagePreviews.defined
    /\ \A h \in 1..Len(handlers) : handlers[h].kind = "variant" )
  => /\ Len(imagePreviews.list) = Len(form.image)
     /\ \A i \in 1..Len(form.image) :
          form.image[i].src = <<CdnHost, imagePreviews.list[i]>>

\* C19: a picker handler whose upload fails changes neither the form's image
\* list, nor the variant rows, nor the previews: not when it starts, not when
\* an earlier file of its batch has uploaded, not when the upload fails.
Untouched ==
  /\ form'.image = form.image
  /\ form'.variant = form.variant
  /\ imagePreviews' = imagePreviews

C19_Step ==
  /\ Len(handlers') = Len(handlers) + 1 => Untouched
  /\ \A h \in 1..Len(handlers) :
       /\ ( /\ Len(handlers') = Len(handlers)
            /\ handlers'[h].at = handlers[h].at + 1 ) => Untouched
       /\ ( /\ handlers' = RemoveAt(handlers, h)
            /\ lastUpload'.outcome = "failed" ) => Untouched

C19_FailedUploadKeepsForm == [][C19_Step]_vars

C19_Witness ==
  /\ lastUpload = Ended("failed", 1)
  /\ handlers = <<>>
  /\ form.image = DefaultValues.image
  /\ ~imagePreviews.defined

\* C14: the settings table holds at most one row per name; a setBannerText
\* call leaves exactly one row of its name, with its value, and the rows of
\* other names as they were; getBannerText changes nothing, returns the row
\* named "banner" or null, and never fails, whether or not the read does.
C14_OneRow ==
  \A r, q \in settings : r.name = q.name => r = q

C14_Step ==
  /\ resp'.op = "setBannerText" =>
       /\ resp'.status = "ok"
       /\ {r \in settings' : r.name = resp'.input.name} = {resp'.input}
       /\ {r \in settings' : r.name # resp'.input.name}
             = {r \in settings : r.name # resp'.input.name}
  /\ resp'.op = "getBannerText" =>
       /\ resp'.status = "ok"
       /\ settings' = settings
       /\ \/ resp'.ret = Null
          \/ resp'.ret \in settings /\ resp'.ret.name = "banner"
       /\ (~\E r \in settings : r.name = "banner") => resp'.ret = Null

C14_Banner == []C14_OneRow /\ [][C14_Step]_vars

C14_Witness ==
  /\ prev.op = "setBannerText" /\ prev.input = [name |-> "promo", value |-> "x"]
  /\ resp.op = "getBannerText" /\ resp.ret = [name |-> "banner", value |-> "y"]
  /\ settings = {[name |-> "banner", value |-> "y"], [name |-> "promo", value |-> "x"]}

\* C15: once two toggleStatus calls on the same product have both completed
\* and no call is in flight, the product's isActive is what it was before the
\* two calls (the value the first of them to complete had read), whether the
\* calls ran one after the other or overlapped.
C15_TwoTogglesRestore ==
  ( /\ InFlight = {}
    /\ prev.op = "toggleStatus" /\ prev.status = "ok"
    /\ resp.op = "toggleStatus" /\ resp.status = "ok"
    /\ prev.id = resp.id )
  => product[resp.id].isActive = prev.ret

\* C16: when addVariant has reported completion to its caller, the store call
\* of every entry of the batch has finished.
C16_ReportsAfterWrites ==
  resp.op = "addVariant" => \A i \in 1..Len(tasks) : tasks[i].state # "pending"

\* C17: an attachProductToCategory call for an existing product and a
\* categoryId that matches no category ends in an error and leaves the
\* product's categories as they were.
C17_Step ==
  ( /\ resp'.op = "attachProductToCategory"
    /\ resp'.id \in Products
    /\ resp'.cat \notin category )
  => /\ resp'.status = "error"
     /\ {m \in membership' : m[1] = resp'.id} = {m \in membership : m[1] = resp'.id}

C17_MissingCategory == [][C17_Step]_vars

=============================================================================
